---- MODULE Spec2Model ----
(***************************************************************************)
(* State-machine model of the notes service (src/notes_services/routes.py) *)
(* with its relational store (models.py), its Redis cache (utils.py) and   *)
(* the RedBeat reminder schedule.  Every HTTP handler is one action; the   *)
(* request body, the authenticated user and the outcome of the commit and  *)
(* of the Redis connection are the action's inputs.                        *)
(***************************************************************************)
EXTENDS Integers, Sequences, FiniteSets, TLC

\* ------------------------------------------------------------- bounds
MaxNotes == 1          \* note ids handed out by the store: 1..MaxNotes
MaxLabels == 2         \* label ids handed out by the store: 1..MaxLabels
MaxReqLen == 2         \* longest label_ids / user_ids list of a request
MaxSteps == 3          \* requests served in one behaviour
MaxFocusSteps == 2     \* requests served in one behaviour that starts with the notes created
MaxInflight == 3       \* requests in flight at the same time

Users == {1, 2}                       \* users the auth service resolves a token to
KnownUsers == Users \cup {3}            \* 3 may be registered, and sends no request here
RequestIds == KnownUsers \cup {4}       \* ids a request may name; 4 is no user
NoteIds == 1..MaxNotes
LabelIds == 1..MaxLabels
Titles == {"a", "b"}                  \* title / description / color: opaque text
BodyFlags == {FALSE}                  \* is_archive / is_trash of a body: the schema default
Reminders == {<<"datetime", "2024-10-16", "21:15:38">>}   \* datetime(date, time)
AccessValues == {"readonly", "readwrite"}
AccessInputs == AccessValues \cup {"admin"}   \* AddCollaborators.access is any str
Lists(S) == UNION {[1..n -> S] : n \in 0..MaxReqLen}
Range(s) == {s[i] : i \in DOMAIN s}
EmptyMap == [x \in {} |-> x]
InitLabelCounts == {0, 1}             \* labels in the table at start
Methods == {"GET", "POST"}            \* request.method
Paths == {"/notes/", "/labels/"}      \* request.url.path
Workers == 1..MaxInflight             \* one worker per request in flight

VARIABLES
  notes,        \* table notes: id -> row (with the ids of its label associations)
  labels,       \* table labels: id -> row
  nextNoteId,   \* the notes.id sequence
  nextLabelId,  \* the labels.id sequence
  cache,        \* Redis db 0: bucket key -> (hash field -> stored JSON value)
  jobs,         \* RedBeat schedule: the names of the saved entries
  registered,   \* the users the user service holds
  steps,        \* requests served so far
  resp,         \* the last request and its response
  request_log,  \* Redis request log: method -> (path -> count)
  inflight      \* worker -> where its request stands and the request's locals

vars == <<notes, labels, nextNoteId, nextLabelId, cache, jobs, registered, steps, resp,
          request_log, inflight>>

\* ------------------------------------------------------------- helpers
Email(u) == "user" \o ToString(u) \o "@example.com"

\* f"user_{user_id}", f"note_{note.id}" and the bare id redis-py encodes as text
BucketKey(user_id) == "user_" \o ToString(user_id)
NoteField(note_id) == "note_" \o ToString(note_id)
BareField(note_id) == ToString(note_id)
BucketKeys == {BucketKey(u) : u \in Users}

\* Label.to_dict (name and color are opaque text no handler here reads)
label_to_dict(ls, l) == [id |-> l, user_id |-> ls[l].user_id]

\* Note.to_dict: every column plus the resolved labels
to_dict(ns, ls, id) ==
  [id |-> id,
   title |-> ns[id].title,
   is_archive |-> ns[id].is_archive,
   is_trash |-> ns[id].is_trash,
   reminder |-> ns[id].reminder,
   user_id |-> ns[id].user_id,
   collaborators |-> ns[id].collaborators,
   labels |-> {label_to_dict(ls, l) : l \in ns[id].labels}]

\* the JSON text of a datetime in a request body (reminder: datetime) and in a
\* response: date, "T", time (a text is written as the sequence of its parts)
isoformat(d) == <<d[2], "T", d[3]>>

\* str(datetime), the text json.dumps(..., default=str) writes: date, " ", time
str_datetime(d) == <<d[2], " ", d[3]>>

\* json.dumps(value, default=str) followed by json.loads: a datetime comes back
\* as its str() text, everything else as it was
json_roundtrip(value) == [value EXCEPT !.reminder = str_datetime(@)]

\* RedisUtils.save: HSET key field json
RedisSave(c, key, field, value) ==
  [c EXCEPT ![key] = (field :> json_roundtrip(value)) @@ @]

\* RedisUtils.delete with a field: HDEL key field
RedisDelete(c, key, field) ==
  [c EXCEPT ![key] = [f \in (DOMAIN @) \ {field} |-> @[f]]]

\* RedisUtils.get: HGETALL key, the values only
RedisGet(c, key) == {c[key][f] : f \in DOMAIN c[key]}

\* what a handler leaves behind: the store, the cache, the schedule, the
\* response status, whether db.commit() returned, and the response data
Out(ns, c, j, status, committed, data) ==
  [notes |-> ns, cache |-> c, jobs |-> j, status |-> status,
   committed |-> committed, source |-> "database", data |-> data]

NoData == {}

\* A request served from start to end by one worker, no other request in
\* flight; the request log belongs to the middleware, which has its own
\* actions below.
Respond(op, user_id, note_id, r) ==
  /\ notes' = r.notes
  /\ cache' = r.cache
  /\ jobs' = r.jobs
  /\ steps' = steps + 1
  /\ resp' = [op |-> op, user_id |-> user_id, note_id |-> note_id,
              status |-> r.status, committed |-> r.committed,
              source |-> r.source, data |-> r.data]
  /\ UNCHANGED <<request_log, inflight>>

Idle == [w \in Workers |-> [pc |-> "idle"]]

\* ------------------------------------------------------------- state
\* The service starts on the database earlier runs left: the labels table
\* holds the labels POST /labels/ created so far (none, or label 1 of any user);
\* there are no notes yet and the cache and the schedule are empty.
Init ==
  /\ notes = EmptyMap
  /\ \E k \in InitLabelCounts : \E owner \in [1..k -> Users] :
        /\ labels = [l \in 1..k |-> [user_id |-> owner[l]]]
        /\ nextLabelId = k + 1
  /\ nextNoteId = 1
  /\ cache = [k \in BucketKeys |-> EmptyMap]
  /\ jobs = {}
  /\ registered = Users
  /\ steps = 0
  /\ resp = [op |-> "none", user_id |-> 0, note_id |-> 0, status |-> 0,
             committed |-> FALSE, source |-> "database", data |-> NoData]
  /\ request_log = EmptyMap
  /\ inflight = Idle

\* CreateNote: the request body of POST /notes/ and PUT /notes/{id}
CreateNote == [title : Titles, is_archive : BodyFlags, is_trash : BodyFlags,
               reminder : Reminders]

\* ------------------------------------------------------------- POST /notes/
\* the outcomes of the handler: db.commit() raises, RedisUtils.save raises, or
\* the request goes through
create_note_results(user_id, note) ==
  LET id == nextNoteId
      new_note == [title |-> note.title, is_archive |-> note.is_archive,
                   is_trash |-> note.is_trash, reminder |-> note.reminder,
                   user_id |-> user_id, collaborators |-> EmptyMap, labels |-> {}]
      ns == (id :> new_note) @@ notes
  IN {Out(notes, cache, jobs, 500, FALSE, NoData),
      Out(ns, cache, jobs, 500, TRUE, NoData),
      Out(ns,
          RedisSave(cache, BucketKey(user_id), BareField(id), to_dict(ns, labels, id)),
          jobs \cup {<<"reminder_task_", id>>},
          201, TRUE, {to_dict(ns, labels, id)})}

create_note ==
  \E user_id \in Users, note \in CreateNote :
    /\ steps < MaxSteps
    /\ nextNoteId <= MaxNotes
    /\ \E r \in create_note_results(user_id, note) :
         /\ Respond("create_note", user_id, nextNoteId, r)
         /\ nextNoteId' = IF r.committed THEN nextNoteId + 1 ELSE nextNoteId
    /\ UNCHANGED <<labels, nextLabelId, registered>>

\* ------------------------------------------------------------- GET /notes/
\* The owner-only filter, db.query(Note).filter(Note.user_id == user_id): the
\* predicate the list query must not be.
ListQueryOwnerOnly(ns, user_id) == {id \in DOMAIN ns : ns[id].user_id = user_id}

\* db.query(Note).filter(or_(Note.user_id == user_id,
\*                           Note.collaborators.has_key(f"{user_id}")))
ListQuery(ns, user_id) ==
  {id \in DOMAIN ns : \/ ns[id].user_id = user_id
                      \/ ToString(user_id) \in DOMAIN ns[id].collaborators}

\* the loop "for note in notes: RedisUtils.save(key, f"note_{note.id}", ...)"
RECURSIVE SaveAll(_, _, _, _, _)
SaveAll(c, key, ns, ls, ids) ==
  IF ids = {} THEN c
  ELSE LET id == CHOOSE x \in ids : TRUE
       IN SaveAll(RedisSave(c, key, NoteField(id), to_dict(ns, ls, id)),
                  key, ns, ls, ids \ {id})

\* the value of notes_data the handler tests at "if not notes_data": the
\* cached list is fetched and then overwritten with None
CachedNotesData(c, key) == {}

\* the handler on a given store, cache and schedule
get_notes_on(ns0, c0, j0, user_id) ==
  LET key == BucketKey(user_id)
      notes_data == CachedNotesData(c0, key)
      found == ListQuery(ns0, user_id)
  IN {Out(ns0, c0, j0, 404, FALSE, NoData)} \cup    \* Redis raises
     (IF notes_data # {}
        THEN {[Out(ns0, c0, j0, 200, FALSE, notes_data) EXCEPT !.source = "cache"]}
      ELSE IF found = {} THEN {Out(ns0, c0, j0, 404, FALSE, NoData)}
      ELSE {Out(ns0, SaveAll(c0, key, ns0, labels, found), j0, 200, FALSE,
                {to_dict(ns0, labels, id) : id \in found})})

get_notes_results(user_id) == get_notes_on(notes, cache, jobs, user_id)

get_notes ==
  \E user_id \in Users :
    /\ steps < MaxSteps
    /\ \E r \in get_notes_results(user_id) : Respond("get_notes", user_id, 0, r)
    /\ UNCHANGED <<labels, nextNoteId, nextLabelId, registered>>

\* ------------------------------------------------------------- PUT /notes/{note_id}
\* An update whose cache write and reminder scheduling are placed before
\* db.commit(): the ordering the handler must not have.
update_note_results_cache_first(user_id, note_id, updated_note) ==
  IF note_id \notin DOMAIN notes THEN {Out(notes, cache, jobs, 404, FALSE, NoData)}
  ELSE
    LET note == [notes[note_id] EXCEPT !.title = updated_note.title,
                                       !.is_archive = updated_note.is_archive,
                                       !.is_trash = updated_note.is_trash,
                                       !.reminder = updated_note.reminder]
        ns == [notes EXCEPT ![note_id] = note]
        c == RedisSave(cache, BucketKey(note.user_id), BareField(note_id),
                       to_dict(ns, labels, note_id))
        j == jobs \cup {<<"reminder_update_task_", note_id>>}
    IN {Out(notes, c, j, 500, FALSE, NoData),
        Out(ns, c, j, 200, TRUE, {to_dict(ns, labels, note_id)})}

update_note_results(user_id, note_id, updated_note) ==
  IF note_id \notin DOMAIN notes THEN {Out(notes, cache, jobs, 404, FALSE, NoData)}
  ELSE
    LET note == [notes[note_id] EXCEPT !.title = updated_note.title,
                                       !.is_archive = updated_note.is_archive,
                                       !.is_trash = updated_note.is_trash,
                                       !.reminder = updated_note.reminder]
        ns == [notes EXCEPT ![note_id] = note]
    IN {Out(notes, cache, jobs, 500, FALSE, NoData),
        Out(ns, cache, jobs, 500, TRUE, NoData),
        Out(ns,
            RedisSave(cache, BucketKey(note.user_id), BareField(note_id),
                      to_dict(ns, labels, note_id)),
            jobs \cup {<<"reminder_update_task_", note_id>>},
            200, TRUE, {to_dict(ns, labels, note_id)})}

update_note ==
  \E user_id \in Users, note_id \in NoteIds :
    /\ steps < MaxSteps
    /\ \E r \in UNION {update_note_results(user_id, note_id, updated_note) :
                         updated_note \in CreateNote} :
         Respond("update_note", user_id, note_id, r)
    /\ UNCHANGED <<labels, nextNoteId, nextLabelId, registered>>

\* ------------------------------------------------------------- DELETE /notes/{note_id}
delete_note_results(user_id, note_id) ==
  IF note_id \notin DOMAIN notes THEN {Out(notes, cache, jobs, 404, FALSE, NoData)}
  ELSE
    LET ns == [id \in (DOMAIN notes) \ {note_id} |-> notes[id]]
    IN {Out(notes, cache, jobs, 500, FALSE, NoData),
        Out(ns, cache, jobs, 500, TRUE, NoData),
        Out(ns, RedisDelete(cache, BucketKey(user_id), BareField(note_id)),
            jobs, 200, TRUE, NoData)}

delete_note ==
  \E user_id \in Users, note_id \in NoteIds :
    /\ steps < MaxSteps
    /\ \E r \in delete_note_results(user_id, note_id) :
         Respond("delete_note", user_id, note_id, r)
    /\ UNCHANGED <<labels, nextNoteId, nextLabelId, registered>>

\* ------------------------------------------------------------- PATCH /notes/archive/{note_id}
\* db.query(Note).filter(Note.id == note_id, Note.user_id == user_id).first()
OwnedNote(ns, note_id, user_id) ==
  note_id \in DOMAIN ns /\ ns[note_id].user_id = user_id

\* a handler that archives instead of toggling: note.is_archive = True
toggle_archive_on_set(ns0, c0, j0, user_id, note_id) ==
  IF ~OwnedNote(ns0, note_id, user_id) THEN {Out(ns0, c0, j0, 500, FALSE, NoData)}
  ELSE LET ns == [ns0 EXCEPT ![note_id].is_archive = TRUE]
       IN {Out(ns0, c0, j0, 500, FALSE, NoData),
           Out(ns, c0, j0, 200, TRUE, {to_dict(ns, labels, note_id)})}

\* the handler on a given store, cache and schedule
toggle_archive_on(ns0, c0, j0, user_id, note_id) ==
  \* the 404 raised in the try block is caught by "except Exception" and
  \* answered as 500
  IF ~OwnedNote(ns0, note_id, user_id) THEN {Out(ns0, c0, j0, 500, FALSE, NoData)}
  ELSE LET ns == [ns0 EXCEPT ![note_id].is_archive = ~@]
       IN {Out(ns0, c0, j0, 500, FALSE, NoData),
           Out(ns, c0, j0, 200, TRUE, {to_dict(ns, labels, note_id)})}

toggle_archive_results(user_id, note_id) ==
  toggle_archive_on(notes, cache, jobs, user_id, note_id)

toggle_archive ==
  \E user_id \in Users, note_id \in NoteIds :
    /\ steps < MaxSteps
    /\ \E r \in toggle_archive_results(user_id, note_id) :
         Respond("toggle_archive", user_id, note_id, r)
    /\ UNCHANGED <<labels, nextNoteId, nextLabelId, registered>>

\* ------------------------------------------------------------- PATCH /notes/trash/{note_id}
toggle_trash_results(user_id, note_id) ==
  IF ~OwnedNote(notes, note_id, user_id) THEN {Out(notes, cache, jobs, 500, FALSE, NoData)}
  ELSE LET ns == [notes EXCEPT ![note_id].is_trash = ~@]
       IN {Out(notes, cache, jobs, 500, FALSE, NoData),
           Out(ns, cache, jobs, 200, TRUE, {to_dict(ns, labels, note_id)})}

toggle_trash ==
  \E user_id \in Users, note_id \in NoteIds :
    /\ steps < MaxSteps
    /\ \E r \in toggle_trash_results(user_id, note_id) :
         Respond("toggle_trash", user_id, note_id, r)
    /\ UNCHANGED <<labels, nextNoteId, nextLabelId, registered>>

\* ------------------------------------------------------------- POST /labels/
create_label ==
  \E user_id \in Users, commitOk \in BOOLEAN :
    /\ steps < MaxSteps
    /\ nextLabelId <= MaxLabels
    /\ labels' = IF commitOk THEN (nextLabelId :> [user_id |-> user_id]) @@ labels
                 ELSE labels
    /\ nextLabelId' = IF commitOk THEN nextLabelId + 1 ELSE nextLabelId
    /\ Respond("create_label", user_id, 0,
               Out(notes, cache, jobs, IF commitOk THEN 200 ELSE 500, commitOk, NoData))
    /\ UNCHANGED <<nextNoteId, registered>>

\* ------------------------------------------------------------- DELETE /labels/{label_id}
\* note_label_association: ForeignKey('labels.id', ondelete='CASCADE')
CascadeLabel(ns, label_id) ==
  [id \in DOMAIN ns |-> [ns[id] EXCEPT !.labels = @ \ {label_id}]]

\* no filter on the user; the 404 of a missing label is caught by
\* "except Exception" and answered as 500
delete_label ==
  \E user_id \in Users, label_id \in LabelIds, commitOk \in BOOLEAN :
    /\ steps < MaxSteps
    /\ LET ok == label_id \in DOMAIN labels /\ commitOk
       IN /\ labels' = IF ok THEN [l \in (DOMAIN labels) \ {label_id} |-> labels[l]]
                       ELSE labels
          /\ Respond("delete_label", user_id, 0,
                     Out(IF ok THEN CascadeLabel(notes, label_id) ELSE notes,
                         cache, jobs, IF ok THEN 200 ELSE 500, ok, NoData))
    /\ UNCHANGED <<nextNoteId, nextLabelId, registered>>

\* ------------------------------------------------------------- POST /notes/{note_id}/add-labels/
\* the label query without the filter Label.user_id == user_id
OwnedLabelsAnyOwner(ls, label_ids, user_id) == Range(label_ids) \cap DOMAIN ls

\* db.query(Label).filter(Label.id.in_(label_ids), Label.user_id == user_id).all()
OwnedLabels(ls, label_ids, user_id) ==
  {l \in Range(label_ids) \cap DOMAIN ls : ls[l].user_id = user_id}

\* add_labels_to_note without the test "len(labels) != len(label_ids)": the
\* labels the query did find are attached
add_labels_to_note_results_partial(user_id, note_id, label_ids) ==
  LET found == OwnedLabels(labels, label_ids, user_id)
      ns == [notes EXCEPT ![note_id].labels = @ \cup found]
  IN IF ~OwnedNote(notes, note_id, user_id) THEN {Out(notes, cache, jobs, 404, FALSE, NoData)}
     ELSE {Out(notes, cache, jobs, 500, FALSE, NoData),
           Out(ns, cache, jobs, 500, TRUE, NoData),
           Out(ns,
               RedisSave(cache, BucketKey(user_id), NoteField(note_id),
                         to_dict(ns, labels, note_id)),
               jobs, 200, TRUE, NoData)}

add_labels_to_note_results(user_id, note_id, label_ids) ==
  LET found == OwnedLabels(labels, label_ids, user_id)
      ns == [notes EXCEPT ![note_id].labels = @ \cup found]
  IN IF ~OwnedNote(notes, note_id, user_id) THEN {Out(notes, cache, jobs, 404, FALSE, NoData)}
     ELSE IF Cardinality(found) # Len(label_ids)
       THEN {Out(notes, cache, jobs, 404, FALSE, NoData)}
     ELSE {Out(notes, cache, jobs, 500, FALSE, NoData),
           Out(ns, cache, jobs, 500, TRUE, NoData),
           Out(ns,
               RedisSave(cache, BucketKey(user_id), NoteField(note_id),
                         to_dict(ns, labels, note_id)),
               jobs, 200, TRUE, NoData)}

add_labels_to_note ==
  \E user_id \in Users, note_id \in NoteIds :
    /\ steps < MaxSteps
    /\ \E r \in UNION {add_labels_to_note_results(user_id, note_id, label_ids) :
                         label_ids \in Lists(LabelIds)} :
         Respond("add_labels_to_note", user_id, note_id, r)
    /\ UNCHANGED <<labels, nextNoteId, nextLabelId, registered>>

\* ------------------------------------------------------------- DELETE /notes/{note_id}/remove-labels/
\* The cache part of the handler: every cached value of the bucket whose "id"
\* is note_id is stripped of the requested labels and saved under note_<id>.
\* HGETALL gives the fields in no specified order, so when the bucket holds
\* the note under both fields either value can be the one saved last.
RemoveLabelsCaches(c, key, note_id, label_ids) ==
  LET hits == {v \in RedisGet(c, key) : v.id = note_id}
      strip(v) == [v EXCEPT !.labels = {l \in @ : l.id \notin Range(label_ids)}]
  IN IF hits = {} THEN {c}
     ELSE {[c EXCEPT ![key] = (NoteField(note_id) :> strip(v)) @@ @] : v \in hits}

\* a removal that takes every label off the note
remove_labels_from_note_on_clear(ns0, c0, j0, user_id, note_id, label_ids) ==
  LET found == OwnedLabels(labels, label_ids, user_id)
      ns == [ns0 EXCEPT ![note_id].labels = {}]
  IN IF ~OwnedNote(ns0, note_id, user_id) THEN {Out(ns0, c0, j0, 404, FALSE, NoData)}
     ELSE IF found = {} THEN {Out(ns0, c0, j0, 400, FALSE, NoData)}
     ELSE {Out(ns0, c0, j0, 500, FALSE, NoData),
           Out(ns, c0, j0, 500, TRUE, NoData)} \cup
          {Out(ns, c, j0, 200, TRUE, NoData) :
             c \in RemoveLabelsCaches(c0, BucketKey(user_id), note_id, label_ids)}

\* the handler on a given store, cache and schedule
remove_labels_from_note_on(ns0, c0, j0, user_id, note_id, label_ids) ==
  LET found == OwnedLabels(labels, label_ids, user_id)
      ns == [ns0 EXCEPT ![note_id].labels = @ \ found]
  IN IF ~OwnedNote(ns0, note_id, user_id) THEN {Out(ns0, c0, j0, 404, FALSE, NoData)}
     ELSE IF found = {} THEN {Out(ns0, c0, j0, 400, FALSE, NoData)}
     ELSE {Out(ns0, c0, j0, 500, FALSE, NoData),
           Out(ns, c0, j0, 500, TRUE, NoData)} \cup
          {Out(ns, c, j0, 200, TRUE, NoData) :
             c \in RemoveLabelsCaches(c0, BucketKey(user_id), note_id, label_ids)}

remove_labels_from_note_results(user_id, note_id, label_ids) ==
  remove_labels_from_note_on(notes, cache, jobs, user_id, note_id, label_ids)

remove_labels_from_note ==
  \E user_id \in Users, note_id \in NoteIds :
    /\ steps < MaxSteps
    /\ \E r \in UNION {remove_labels_from_note_results(user_id, note_id, label_ids) :
                         label_ids \in Lists(LabelIds)} :
         Respond("remove_labels_from_note", user_id, note_id, r)
    /\ UNCHANGED <<labels, nextNoteId, nextLabelId, registered>>

\* ------------------------------------------------------------- PATCH /notes/add-collaborators
\* the user service's answer to GET ?user_ids=...: the users it knows
UserDirectory(user_ids) ==
  {[id |-> u, email |-> Email(u)] : u \in Range(user_ids) \cap registered}

\* a merge that keeps the entry a user already has
MergeCollaboratorsKeepExisting(collaborators, user_data, access) ==
  collaborators @@
    [k \in {ToString(user.id) : user \in user_data} |->
       [email |-> (CHOOSE user \in user_data : ToString(user.id) = k).email,
        access |-> access]]

\* "for user in user_data: note.collaborators[user['id']] = {...}", as the
\* JSON column holds it after commit and refresh: keys are text
RECURSIVE MergeCollaborators(_, _, _)
MergeCollaborators(collaborators, user_data, access) ==
  IF user_data = {} THEN collaborators
  ELSE LET user == CHOOSE x \in user_data : TRUE
       IN MergeCollaborators(
            (ToString(user.id) :> [email |-> user.email, access |-> access])
              @@ collaborators,
            user_data \ {user}, access)

\* add_collaborators without the test "len(user_data) != len(user_ids)": the
\* users the directory did resolve are added
add_collaborators_results_partial(user_id, note_id, user_ids, access) ==
  LET user_data == UserDirectory(user_ids)
      ns == [notes EXCEPT ![note_id].collaborators =
                              MergeCollaborators(@, user_data, access)]
  IN IF ~OwnedNote(notes, note_id, user_id) THEN {Out(notes, cache, jobs, 404, FALSE, NoData)}
     ELSE IF user_id \in Range(user_ids) THEN {Out(notes, cache, jobs, 400, FALSE, NoData)}
     ELSE {Out(notes, cache, jobs, 400, FALSE, NoData),
           Out(ns, cache, jobs, 400, TRUE, NoData),
           Out(ns,
               RedisSave(cache, BucketKey(user_id), NoteField(note_id),
                         to_dict(ns, labels, note_id)),
               jobs, 200, TRUE, NoData)}

\* add_collaborators without the test "if user_id in collab_data.user_ids"
add_collaborators_results_no_self_check(user_id, note_id, user_ids, access) ==
  LET user_data == UserDirectory(user_ids)
      ns == [notes EXCEPT ![note_id].collaborators =
                              MergeCollaborators(@, user_data, access)]
  IN IF ~OwnedNote(notes, note_id, user_id) THEN {Out(notes, cache, jobs, 404, FALSE, NoData)}
     ELSE IF Cardinality(user_data) # Len(user_ids)
       THEN {Out(notes, cache, jobs, 400, FALSE, NoData)}
     ELSE {Out(notes, cache, jobs, 400, FALSE, NoData),
           Out(ns, cache, jobs, 400, TRUE, NoData),
           Out(ns,
               RedisSave(cache, BucketKey(user_id), NoteField(note_id),
                         to_dict(ns, labels, note_id)),
               jobs, 200, TRUE, NoData)}

add_collaborators_results(user_id, note_id, user_ids, access) ==
  LET user_data == UserDirectory(user_ids)
      ns == [notes EXCEPT ![note_id].collaborators =
                              MergeCollaborators(@, user_data, access)]
  IN IF ~OwnedNote(notes, note_id, user_id) THEN {Out(notes, cache, jobs, 404, FALSE, NoData)}
     ELSE IF user_id \in Range(user_ids) THEN {Out(notes, cache, jobs, 400, FALSE, NoData)}
     ELSE IF Cardinality(user_data) # Len(user_ids)
       THEN {Out(notes, cache, jobs, 400, FALSE, NoData)}
     ELSE {Out(notes, cache, jobs, 400, FALSE, NoData),
           Out(ns, cache, jobs, 400, TRUE, NoData),
           Out(ns,
               RedisSave(cache, BucketKey(user_id), NoteField(note_id),
                         to_dict(ns, labels, note_id)),
               jobs, 200, TRUE, NoData)}

add_collaborators ==
  \E user_id \in Users, note_id \in NoteIds :
    /\ steps < MaxSteps
    /\ \E r \in UNION {add_collaborators_results(user_id, note_id, user_ids, access) :
                         user_ids \in Lists(RequestIds), access \in AccessInputs} :
         Respond("add_collaborators", user_id, note_id, r)
    /\ UNCHANGED <<labels, nextNoteId, nextLabelId, registered>>

\* ------------------------------------------------------------- PATCH /notes/remove-collaborators
\* the loop over user_ids: each id must still be a key when its turn comes
\* (a repeated id is gone by its second turn), else the 400 is raised
\* a removal loop that skips the ids that are not collaborators
PopAllSkipMissing(collaborators, user_ids) ==
  [ok |-> TRUE,
   collaborators |-> [x \in (DOMAIN collaborators) \ {ToString(u) : u \in Range(user_ids)}
                        |-> collaborators[x]]]

\* a removal loop that stops after the first id
PopAllFirstOnly(collaborators, user_ids) ==
  [ok |-> \A u \in Range(user_ids) : ToString(u) \in DOMAIN collaborators,
   collaborators |-> IF user_ids = <<>> THEN collaborators
                     ELSE [x \in (DOMAIN collaborators) \ {ToString(Head(user_ids))}
                             |-> collaborators[x]]]

RECURSIVE PopAll(_, _)
PopAll(collaborators, user_ids) ==
  IF user_ids = <<>> THEN [ok |-> TRUE, collaborators |-> collaborators]
  ELSE LET k == ToString(Head(user_ids))
       IN IF k \notin DOMAIN collaborators
            THEN [ok |-> FALSE, collaborators |-> collaborators]
            ELSE PopAll([x \in (DOMAIN collaborators) \ {k} |-> collaborators[x]],
                        Tail(user_ids))

\* The cache part of the handler: the first cached value of the bucket whose
\* "id" is note_id gets the stored collaborators and is saved under note_<id>
\* (then "break").  HGETALL gives the fields in no specified order, so when the
\* bucket holds the note under both fields either value can be the first.
RemoveCollaboratorsCaches(c, key, note_id, collaborators) ==
  LET hits == {v \in RedisGet(c, key) : v.id = note_id}
  IN IF hits = {} THEN {c}
     ELSE {[c EXCEPT ![key] =
              (NoteField(note_id) :> [v EXCEPT !.collaborators = collaborators]) @@ @] :
             v \in hits}

remove_collaborators_results(user_id, note_id, user_ids) ==
  IF ~OwnedNote(notes, note_id, user_id) THEN {Out(notes, cache, jobs, 404, FALSE, NoData)}
  ELSE IF notes[note_id].collaborators = EmptyMap
    THEN {Out(notes, cache, jobs, 400, FALSE, NoData)}
  ELSE
    LET popped == PopAll(notes[note_id].collaborators, user_ids)
        ns == [notes EXCEPT ![note_id].collaborators = popped.collaborators]
    IN IF ~popped.ok THEN {Out(notes, cache, jobs, 400, FALSE, NoData)}
       ELSE {Out(notes, cache, jobs, 400, FALSE, NoData),
             Out(ns, cache, jobs, 400, TRUE, NoData)} \cup
            {Out(ns, c, jobs, 200, TRUE, NoData) :
               c \in RemoveCollaboratorsCaches(cache, BucketKey(user_id), note_id,
                                               popped.collaborators)}

remove_collaborators ==
  \E user_id \in Users, note_id \in NoteIds :
    /\ steps < MaxSteps
    /\ \E r \in UNION {remove_collaborators_results(user_id, note_id, user_ids) :
                         user_ids \in Lists(RequestIds)} :
         Respond("remove_collaborators", user_id, note_id, r)
    /\ UNCHANGED <<labels, nextNoteId, nextLabelId, registered>>

Next ==
  \/ create_note
  \/ get_notes
  \/ update_note
  \/ delete_note
  \/ toggle_archive
  \/ toggle_trash
  \/ create_label
  \/ delete_label
  \/ add_labels_to_note
  \/ remove_labels_from_note
  \/ add_collaborators
  \/ remove_collaborators

Spec == Init /\ [][Next]_vars

\* ------------------------------------------------------------- notes created
\* The store, cache and schedule after POST /notes/ has gone through k times,
\* note n for user owner[n]: the rows, one bare-field cache entry per note in
\* its owner's bucket, one reminder job per note.
CreatedNotes(owner) ==
  [n \in DOMAIN owner |->
     [title |-> "a", is_archive |-> FALSE, is_trash |-> FALSE,
      reminder |-> CHOOSE x \in Reminders : TRUE,
      user_id |-> owner[n], collaborators |-> EmptyMap, labels |-> {}]]

CreatedCache(owner) ==
  [key \in BucketKeys |->
     [f \in {BareField(n) : n \in {m \in DOMAIN owner : BucketKey(owner[m]) = key}} |->
        json_roundtrip(to_dict(CreatedNotes(owner), EmptyMap,
                               CHOOSE n \in DOMAIN owner : BareField(n) = f))]]

InitCreated(label_counts, known) ==
  /\ \E k \in 0..MaxNotes : \E owner \in [1..k -> Users] :
        /\ notes = CreatedNotes(owner)
        /\ cache = CreatedCache(owner)
        /\ jobs = {<<"reminder_task_", n>> : n \in 1..k}
        /\ nextNoteId = k + 1
  /\ \E k \in label_counts : \E owner \in [1..k -> Users] :
        /\ labels = [l \in 1..k |-> [user_id |-> owner[l]]]
        /\ nextLabelId = k + 1
  /\ registered = known
  /\ steps = 0
  /\ resp = [op |-> "none", user_id |-> 0, note_id |-> 0, status |-> 0,
             committed |-> FALSE, source |-> "database", data |-> NoData]
  /\ request_log = EmptyMap
  /\ inflight = Idle

\* ------------------------------------------------------------- sharing
\* The sharing handlers on notes already created, with a third registered
\* user: a note can then have two collaborators at once.
InitShare == InitCreated({0}, KnownUsers)

NextShare ==
  /\ steps < MaxFocusSteps
  /\ \/ add_collaborators
     \/ remove_collaborators

SpecShare == InitShare /\ [][NextShare]_vars

\* add-collaborators requests only
NextAdd == steps < MaxFocusSteps /\ add_collaborators

SpecAdd == InitShare /\ [][NextAdd]_vars

\* ------------------------------------------------------------- labelling
\* Attaching and detaching labels on notes already created and a labels table
\* that holds up to MaxLabels labels of any users.
InitLabels == InitCreated(0..MaxLabels, Users)

NextLabels ==
  /\ steps < MaxFocusSteps
  /\ \/ add_labels_to_note
     \/ remove_labels_from_note

SpecLabels == InitLabels /\ [][NextLabels]_vars

\* ------------------------------------------------------------- middleware log_requests
\* Each request is served by its own worker.  The middleware reads the log of
\* the request's method, adds one to the count of its path in its own copy
\* and writes the copy back: two Redis commands, between which the commands of
\* other workers can run.  RedisLogRequests.get / save are taken as what
\* their call sites use them for: get the value stored under the key (falsy
\* when there is none), store the value under the key.
Increment(log, path) ==
  IF path \in DOMAIN log THEN [log EXCEPT ![path] = @ + 1]
  ELSE (path :> 1) @@ log

\* redis_instance.get(key=method) and the update of the worker's copy, or the
\* 500 of "except Exception" when Redis raises
log_requests_get(w) ==
  /\ inflight[w].pc = "idle"
  /\ \E method \in Methods, path \in Paths, redisOk \in BOOLEAN :
       LET request_log_w == IF method \in DOMAIN request_log THEN request_log[method]
                            ELSE EmptyMap
       IN inflight' = [inflight EXCEPT ![w] =
            IF redisOk
              THEN [pc |-> "save", method |-> method, path |-> path,
                    request_log |-> Increment(request_log_w, path)]
              ELSE [pc |-> "done", method |-> method, path |-> path, status |-> 500]]
  /\ UNCHANGED <<notes, labels, nextNoteId, nextLabelId, cache, jobs, registered,
                 steps, resp, request_log>>

\* redis_instance.save(key=method, value=json.dumps(request_log)), then
\* call_next(request) answers the request
log_requests_save(w) ==
  /\ inflight[w].pc = "save"
  /\ \E redisOk \in BOOLEAN :
       /\ request_log' = IF redisOk
                           THEN (inflight[w].method :> inflight[w].request_log)
                                  @@ request_log
                         ELSE request_log
       /\ inflight' = [inflight EXCEPT ![w] =
            [pc |-> "done", method |-> @.method, path |-> @.path,
             status |-> IF redisOk THEN 200 ELSE 500]]
  /\ UNCHANGED <<notes, labels, nextNoteId, nextLabelId, cache, jobs, registered,
                 steps, resp>>

NextLog == \E w \in Workers : log_requests_get(w) \/ log_requests_save(w)

SpecLog == Init /\ [][NextLog]_vars

\* ------------------------------------------------------------- requests in flight
\* A mutating request served next to others: db.commit() with db.refresh(note)
\* is one step, the RedisUtils.save that follows is another, and the steps of
\* other workers can run between the two.  The worker keeps the note object
\* its session loaded at the refresh.
Unchanged_db == UNCHANGED <<labels, nextNoteId, nextLabelId, registered, steps, resp,
                            request_log>>

Answer(w, op, note_id, status) ==
  inflight' = [inflight EXCEPT ![w] =
                 [pc |-> "done", op |-> op, note_id |-> note_id, status |-> status]]

\* note.to_dict at the time of the save: the columns are those of the refresh;
\* the labels relationship is the one of the refresh or is loaded when
\* to_dict reads it
to_dict_now(note_id, note) ==
  {to_dict((note_id :> [note EXCEPT !.labels = ls]), labels, note_id) :
     ls \in {note.labels} \cup
            (IF note_id \in DOMAIN notes THEN {notes[note_id].labels} ELSE {})}

\* PUT /notes/{note_id} up to db.refresh(note)
update_note_commit(w) ==
  /\ inflight[w].pc = "idle"
  /\ \E user_id \in Users, note_id \in NoteIds, updated_note \in CreateNote,
        commitOk \in BOOLEAN :
       IF note_id \notin DOMAIN notes
         THEN Answer(w, "update_note", note_id, 404) /\ notes' = notes
       ELSE IF ~commitOk
         THEN Answer(w, "update_note", note_id, 500) /\ notes' = notes
       ELSE
         LET note == [notes[note_id] EXCEPT !.title = updated_note.title,
                                            !.is_archive = updated_note.is_archive,
                                            !.is_trash = updated_note.is_trash,
                                            !.reminder = updated_note.reminder]
         IN /\ notes' = [notes EXCEPT ![note_id] = note]
            /\ inflight' = [inflight EXCEPT ![w] =
                  [pc |-> "update_note_cache", note_id |-> note_id, note |-> note]]
  /\ UNCHANGED <<cache, jobs>>
  /\ Unchanged_db

\* RedisUtils.save(key=f"user_{note.user_id}", field=note.id, ...) and the
\* reminder entry
update_note_cache(w) ==
  /\ inflight[w].pc = "update_note_cache"
  /\ LET note_id == inflight[w].note_id
         note == inflight[w].note
     IN \/ /\ Answer(w, "update_note", note_id, 500)      \* Redis raises
           /\ UNCHANGED <<cache, jobs>>
        \/ \E value \in to_dict_now(note_id, note) :
             /\ cache' = RedisSave(cache, BucketKey(note.user_id), BareField(note_id), value)
             /\ jobs' = jobs \cup {<<"reminder_update_task_", note_id>>}
             /\ Answer(w, "update_note", note_id, 200)
  /\ notes' = notes
  /\ Unchanged_db

\* POST /notes/{note_id}/add-labels/ up to db.refresh(note)
add_labels_to_note_commit(w) ==
  /\ inflight[w].pc = "idle"
  /\ \E user_id \in Users, note_id \in NoteIds, label_ids \in Lists(LabelIds),
        commitOk \in BOOLEAN :
       LET found == OwnedLabels(labels, label_ids, user_id)
       IN IF ~OwnedNote(notes, note_id, user_id) \/ Cardinality(found) # Len(label_ids)
            THEN Answer(w, "add_labels_to_note", note_id, 404) /\ notes' = notes
          ELSE IF ~commitOk
            THEN Answer(w, "add_labels_to_note", note_id, 500) /\ notes' = notes
          ELSE
            LET note == [notes[note_id] EXCEPT !.labels = @ \cup found]
            IN /\ notes' = [notes EXCEPT ![note_id] = note]
               /\ inflight' = [inflight EXCEPT ![w] =
                     [pc |-> "add_labels_to_note_cache", note_id |-> note_id,
                      note |-> note]]
  /\ UNCHANGED <<cache, jobs>>
  /\ Unchanged_db

\* RedisUtils.save(key=f"user_{user_id}", field=f"note_{note.id}", ...)
add_labels_to_note_cache(w) ==
  /\ inflight[w].pc = "add_labels_to_note_cache"
  /\ LET note_id == inflight[w].note_id
         note == inflight[w].note
     IN \/ /\ Answer(w, "add_labels_to_note", note_id, 500)      \* Redis raises
           /\ cache' = cache
        \/ \E value \in to_dict_now(note_id, note) :
             /\ cache' = RedisSave(cache, BucketKey(note.user_id), NoteField(note_id), value)
             /\ Answer(w, "add_labels_to_note", note_id, 200)
  /\ UNCHANGED <<notes, jobs>>
  /\ Unchanged_db

\* PATCH /notes/archive/{note_id} up to the query: the session loads the note
toggle_archive_query(w) ==
  /\ inflight[w].pc = "idle"
  /\ \E user_id \in Users, note_id \in NoteIds :
       IF ~OwnedNote(notes, note_id, user_id)
         THEN Answer(w, "toggle_archive", note_id, 500)
       ELSE inflight' = [inflight EXCEPT ![w] =
              [pc |-> "toggle_archive_commit", note_id |-> note_id,
               note |-> notes[note_id]]]
  /\ UNCHANGED <<notes, cache, jobs>>
  /\ Unchanged_db

\* note.is_archive = not note.is_archive; db.commit(): the UPDATE sets the
\* column to the negation of the value the session loaded
toggle_archive_commit(w) ==
  /\ inflight[w].pc = "toggle_archive_commit"
  /\ LET note_id == inflight[w].note_id
         is_archive == ~inflight[w].note.is_archive
     IN \E commitOk \in BOOLEAN :
          IF commitOk /\ note_id \in DOMAIN notes
            THEN /\ notes' = [notes EXCEPT ![note_id].is_archive = is_archive]
                 /\ Answer(w, "toggle_archive", note_id, 200)
          ELSE /\ notes' = notes
               /\ Answer(w, "toggle_archive", note_id, 500)
  /\ UNCHANGED <<cache, jobs>>
  /\ Unchanged_db

NextToggle ==
  \E w \in Workers : toggle_archive_query(w) \/ toggle_archive_commit(w)

SpecToggle == InitCreated({0}, Users) /\ [][NextToggle]_vars

InitRace == InitCreated(InitLabelCounts, Users)

NextRace ==
  \E w \in Workers :
    \/ update_note_commit(w)
    \/ update_note_cache(w)
    \/ add_labels_to_note_commit(w)
    \/ add_labels_to_note_cache(w)

SpecRace == InitRace /\ [][NextRace]_vars

\* ============================================================= claims
Success(status) == status \in {200, 201}

MutatingOps == {"update_note", "delete_note", "toggle_archive", "toggle_trash",
                "add_labels_to_note", "remove_labels_from_note",
                "add_collaborators", "remove_collaborators"}

\* the value the cache holds for note n when it is in step with the store
Snapshot(n) == json_roundtrip(to_dict(notes, labels, n))

\* the fields of a bucket whose value is a snapshot of note n
EntriesFor(c, key, n) == {f \in DOMAIN c[key] : c[key][f].id = n}

\* the access decision of section 4.1: the owner, or a collaborator whose
\* stored access is "readwrite"
HasReadWrite(user_id, note) ==
  \/ note.user_id = user_id
  \/ /\ ToString(user_id) \in DOMAIN note.collaborators
     /\ note.collaborators[ToString(user_id)].access = "readwrite"

\* C1: after a successful create or update of note N the owner's bucket holds
\* N's current snapshot, and no entry for N in that bucket differs from the
\* store.
C1_WriteLeavesOwnerBucketCurrent ==
  (resp.op \in {"create_note", "update_note"} /\ Success(resp.status)) =>
    LET n == resp.note_id
        key == BucketKey(notes[n].user_id)
    IN /\ EntriesFor(cache, key, n) # {}
       /\ \A f \in EntriesFor(cache, key, n) : cache[key][f] = Snapshot(n)

\* C2: after a successful delete of note N the bucket of N's owner holds no
\* entry for N.
C2_DeleteLeavesNoEntry ==
  [][(resp'.op = "delete_note" /\ Success(resp'.status)) =>
       EntriesFor(cache', BucketKey(notes[resp'.note_id].user_id), resp'.note_id) = {}]_vars

\* C3: a mutating request on an existing note by an actor who is neither its
\* owner nor a readwrite collaborator fails and leaves the store as it was.
C3_UnauthorizedMutationFails ==
  [][(/\ resp'.op \in MutatingOps
      /\ resp'.note_id \in DOMAIN notes
      /\ ~HasReadWrite(resp'.user_id, notes[resp'.note_id])) =>
       (~Success(resp'.status) /\ notes' = notes)]_vars

\* C4: after a successful archive or trash toggle of note N no cached snapshot
\* of N in the owner's bucket shows an is_archive or is_trash other than the
\* store's.
C4_ToggleRefreshesCache ==
  (resp.op \in {"toggle_archive", "toggle_trash"} /\ Success(resp.status)) =>
    LET n == resp.note_id
        key == BucketKey(notes[n].user_id)
    IN \A f \in EntriesFor(cache, key, n) :
         /\ cache[key][f].is_archive = notes[n].is_archive
         /\ cache[key][f].is_trash = notes[n].is_trash

\* C5: after a successful label attach/detach or collaborator add/remove on
\* note N the owner's bucket holds an entry for N whose whole snapshot equals
\* the store.
C5_LabelAndCollaboratorOpsCache ==
  (/\ resp.op \in {"add_labels_to_note", "remove_labels_from_note",
                   "add_collaborators", "remove_collaborators"}
   /\ Success(resp.status)) =>
    LET n == resp.note_id
        key == BucketKey(notes[n].user_id)
    IN \E f \in DOMAIN cache[key] : cache[key][f] = Snapshot(n)

\* C6: every cache entry for note N sits under field note_<N>, so a bucket
\* holds at most one entry per note id.
C6_OneEntryPerNote ==
  \A key \in BucketKeys :
    /\ \A f \in DOMAIN cache[key] : f = NoteField(cache[key][f].id)
    /\ \A n \in NoteIds : Cardinality(EntriesFor(cache, key, n)) <= 1

\* C7: GET /notes/ answers from the requester's bucket when it is not empty:
\* the response is the bucket's contents, and nothing is written.
C7_ListIsReadThrough ==
  [][(/\ resp'.op = "get_notes"
      /\ Success(resp'.status)
      /\ cache[BucketKey(resp'.user_id)] # EmptyMap) =>
       (/\ resp'.source = "cache"
        /\ cache' = cache
        /\ resp'.data = RedisGet(cache, BucketKey(resp'.user_id)))]_vars

\* the notes user_id may see: its own and those whose collaborator map has
\* its id as a key
VisibleTo(user_id) ==
  {n \in DOMAIN notes :
     notes[n].user_id = user_id \/ \E k \in DOMAIN notes[n].collaborators :
                                      k = ToString(user_id)}

C10_NoCommitNoCacheWrite ==
  [][(resp'.op \in MutatingOps \cup {"create_note"} /\ ~resp'.committed) =>
       (cache' = cache /\ jobs' = jobs /\ notes' = notes)]_vars

\* the commit of an update of an existing note has just failed
C10_Witness ==
  /\ resp.op = "update_note"
  /\ resp.note_id \in DOMAIN notes
  /\ ~resp.committed
  /\ resp.status = 500

\* C11: when the cache write fails after the commit of a mutating request, the
\* request is still answered with success.  In every handler a committed
\* request ends without success only because RedisUtils raised after
\* db.commit(), so: every committed mutating request is answered 200/201.
C11_CacheFailureStillSucceeds ==
  (resp.op \in MutatingOps \cup {"create_note"} /\ resp.committed) =>
    Success(resp.status)

\* C12: an add-collaborators request that names the actor's own id is answered
\* 400 for every existing note, owned by the actor or not.
C12_SelfAddAlways400 ==
  \A user_id \in Users, note_id \in DOMAIN notes :
    \A user_ids \in Lists(RequestIds), access \in AccessInputs :
      user_id \in Range(user_ids) =>
        \A r \in add_collaborators_results(user_id, note_id, user_ids, access) :
          r.status = 400

\* C13: no note has its owner's id as a key of its collaborator map.
C13_OwnerNeverCollaborator ==
  \A n \in DOMAIN notes :
    ToString(notes[n].user_id) \notin DOMAIN notes[n].collaborators

\* a collaborator has just been added to a note, and the owner naming their
\* own id next to a known user is turned down
C13_Witness ==
  /\ resp.op = "add_collaborators"
  /\ Success(resp.status)
  /\ notes[resp.note_id].collaborators # EmptyMap
  /\ \A r \in add_collaborators_results(resp.user_id, resp.note_id,
                                        <<resp.user_id>>, "readwrite") :
        r.status = 400 /\ r.notes = notes

\* the requests on notes a user owns
Owned(user_id) == {n \in DOMAIN notes : notes[n].user_id = user_id}
Keys(user_ids) == {ToString(u) : u \in Range(user_ids)}
Distinct(s) == \A i, j \in DOMAIN s : i # j => s[i] # s[j]
Without(m, ks) == [k \in (DOMAIN m) \ ks |-> m[k]]

\* C14: a remove-collaborators request on an owned note is answered 400 and
\* leaves the store as it was whenever the note's map is empty, some requested
\* id is not a key of the map, or an id is named twice.
C14_RemoveFailsWithoutMutation ==
  \A user_id \in Users : \A note_id \in Owned(user_id) :
    \A user_ids \in Lists(RequestIds) :
      (\/ notes[note_id].collaborators = EmptyMap
       \/ ~(Keys(user_ids) \subseteq DOMAIN notes[note_id].collaborators)
       \/ ~Distinct(user_ids)) =>
        \A r \in remove_collaborators_results(user_id, note_id, user_ids) :
          r.status = 400 /\ r.notes = notes

\* a removal has just been turned down on a note that has a collaborator, and
\* a request naming that collaborator first and a stranger second is one of
\* the requests the note turns down
C14_Witness ==
  /\ resp.op = "remove_collaborators"
  /\ resp.status = 400
  /\ resp.note_id \in Owned(resp.user_id)
  /\ \E u \in KnownUsers :
        /\ ToString(u) \in DOMAIN notes[resp.note_id].collaborators
        /\ \A r \in remove_collaborators_results(resp.user_id, resp.note_id, <<u, 4>>) :
              r.status = 400 /\ r.notes = notes

\* C15 as stated: when every requested id is a key of the owned note's
\* non-empty map the removal goes through, and what is committed is the map
\* without the requested ids, every other entry and note as before.
C15_RemoveAllRequested ==
  \A user_id \in Users : \A note_id \in Owned(user_id) :
    \A user_ids \in Lists(RequestIds) :
      (/\ notes[note_id].collaborators # EmptyMap
       /\ Keys(user_ids) \subseteq DOMAIN notes[note_id].collaborators) =>
        LET rs == remove_collaborators_results(user_id, note_id, user_ids)
        IN /\ \E r \in rs : Success(r.status)
           /\ \A r \in rs : r.committed =>
                 r.notes = [notes EXCEPT ![note_id].collaborators =
                                           Without(@, Keys(user_ids))]

\* C15, amended: the same for requests that name no id twice.
C15_RemoveAllRequestedDistinct ==
  \A user_id \in Users : \A note_id \in Owned(user_id) :
    \A user_ids \in Lists(RequestIds) :
      (/\ notes[note_id].collaborators # EmptyMap
       /\ Keys(user_ids) \subseteq DOMAIN notes[note_id].collaborators
       /\ Distinct(user_ids)) =>
        LET rs == remove_collaborators_results(user_id, note_id, user_ids)
        IN /\ \E r \in rs : Success(r.status)
           /\ \A r \in rs : r.committed =>
                 r.notes = [notes EXCEPT ![note_id].collaborators =
                                           Without(@, Keys(user_ids))]

\* one of two collaborators has just been removed, the other is still there
C15_Witness ==
  /\ resp.op = "remove_collaborators"
  /\ Success(resp.status)
  /\ notes[resp.note_id].collaborators # EmptyMap

\* C16: an add-collaborators request by the owner is answered 400 and adds
\* nobody whenever the user directory returns a number of users other than
\* the number of ids requested.
C16_UnknownUsersAddNobody ==
  \A user_id \in Users : \A note_id \in Owned(user_id) :
    \A user_ids \in Lists(RequestIds), access \in AccessInputs :
      Cardinality(UserDirectory(user_ids)) # Len(user_ids) =>
        \A r \in add_collaborators_results(user_id, note_id, user_ids, access) :
          r.status = 400 /\ r.notes = notes

\* an addition has just been turned down with nothing stored, on a note for
\* which a request naming a registered user and a stranger is turned down
C16_Witness ==
  /\ resp.op = "add_collaborators"
  /\ resp.status = 400
  /\ ~resp.committed
  /\ resp.note_id \in Owned(resp.user_id)
  /\ \E u \in registered \ {resp.user_id} :
        /\ Cardinality(UserDirectory(<<u, 4>>)) = 1
        /\ \A r \in add_collaborators_results(resp.user_id, resp.note_id, <<u, 4>>,
                                              "readonly") :
              r.status = 400 /\ r.notes = notes

\* the entry a request with access A gives the user whose id reads k
Entry(k, user_ids, access) ==
  [email |-> Email(CHOOSE u \in Range(user_ids) : ToString(u) = k), access |-> access]

\* C17: what an add-collaborators request commits is the previous map with the
\* entry of every requested id set to {email, access}, an existing entry of
\* the same id overwritten, the entries of other ids (and other notes) as
\* before; the map has one entry per user.
C17_AddMergesAndOverwrites ==
  \A user_id \in Users : \A note_id \in Owned(user_id) :
    \A user_ids \in Lists(RequestIds), access \in AccessInputs :
      \A r \in add_collaborators_results(user_id, note_id, user_ids, access) :
        r.committed =>
          LET old == notes[note_id].collaborators
              new == r.notes[note_id].collaborators
          IN /\ r.notes = [notes EXCEPT ![note_id].collaborators = new]
             /\ DOMAIN new = DOMAIN old \cup Keys(user_ids)
             /\ \A k \in DOMAIN new :
                   new[k] = IF k \in Keys(user_ids) THEN Entry(k, user_ids, access)
                            ELSE old[k]
             /\ \A u, v \in KnownUsers : ToString(u) = ToString(v) => u = v

\* an addition has just gone through on a note with two collaborators whose
\* access differs: one entry was written or overwritten, the other kept
C17_Witness ==
  /\ resp.op = "add_collaborators"
  /\ Success(resp.status)
  /\ \E k1, k2 \in DOMAIN notes[resp.note_id].collaborators :
        notes[resp.note_id].collaborators[k1].access #
          notes[resp.note_id].collaborators[k2].access

\* the labels a user owns
LabelsOf(user_id) == {l \in DOMAIN labels : labels[l].user_id = user_id}

\* C18: add-labels is all-or-nothing.  Whatever the request names (a missing
\* label, another user's label, a label already attached, an id twice), the
\* note's label set afterwards is the previous set or the previous set plus
\* all requested labels, nothing else in the store changes, and the store is
\* unchanged when some requested id is not a label of the actor.
C18_AddLabelsAllOrNothing ==
  \A user_id \in Users, note_id \in DOMAIN notes :
    \A label_ids \in Lists(LabelIds) :
      \A r \in add_labels_to_note_results(user_id, note_id, label_ids) :
        /\ \/ r.notes = notes
           \/ r.notes = [notes EXCEPT ![note_id].labels = @ \cup Range(label_ids)]
        /\ ~(Range(label_ids) \subseteq LabelsOf(user_id)) => r.notes = notes

\* labels have just been attached to a note, and a request naming an attached
\* label next to an id that is no label of the owner changes nothing
C18_Witness ==
  /\ resp.op = "add_labels_to_note"
  /\ Success(resp.status)
  /\ \E l \in notes[resp.note_id].labels, x \in LabelIds \ LabelsOf(resp.user_id) :
        \A r \in add_labels_to_note_results(resp.user_id, resp.note_id, <<l, x>>) :
          r.notes = notes

\* C19: attach L (labels of the owner not yet on the note), then remove S:
\* the note is left with the labels it had before and L \ S.  S ranges over
\* the lists of the owner's labels that name no label twice, so it may name
\* labels that are not attached; they are skipped.  A removal that does not
\* commit leaves what the attach stored.
C19_AttachThenDetach ==
  \A user_id \in Users : \A note_id \in Owned(user_id) :
    \A L \in Lists(LabelsOf(user_id) \ notes[note_id].labels) :
      Distinct(L) =>
        \A r1 \in add_labels_to_note_results(user_id, note_id, L) :
          Success(r1.status) =>
            \A S \in {x \in Lists(LabelsOf(user_id)) : Distinct(x)} :
                LET before == notes[note_id].labels
                    rs == remove_labels_from_note_on(r1.notes, r1.cache, r1.jobs,
                                                     user_id, note_id, S)
                IN /\ \A r2 \in rs :
                        r2.notes[note_id].labels =
                          IF r2.committed
                            THEN (before \ Range(S)) \cup (Range(L) \ Range(S))
                            ELSE before \cup Range(L)
                   /\ S # <<>> => \E r2 \in rs : Success(r2.status)

\* two labels have just been attached to a note, and removing one of them
\* goes through and leaves the other
C19_Witness ==
  /\ resp.op = "add_labels_to_note"
  /\ Success(resp.status)
  /\ Cardinality(notes[resp.note_id].labels) >= 2
  /\ \E l \in notes[resp.note_id].labels :
        \E r \in remove_labels_from_note_results(resp.user_id, resp.note_id, <<l>>) :
          /\ Success(r.status)
          /\ r.notes[resp.note_id].labels = notes[resp.note_id].labels \ {l}

\* C20 as stated: a remove-labels request on an owned note to which none of
\* the requested labels is attached is answered 400 and changes nothing.
C20_RemoveUnattachedIs400 ==
  \A user_id \in Users : \A note_id \in Owned(user_id) :
    \A label_ids \in Lists(LabelIds) :
      Range(label_ids) \cap notes[note_id].labels = {} =>
        \A r \in remove_labels_from_note_results(user_id, note_id, label_ids) :
          r.status = 400 /\ r.notes = notes

\* C20, amended: the request is answered 400 when none of the requested ids is
\* a label of the actor; when some are, but none is attached, the request can
\* succeed; in both cases the store is unchanged.
C20_RemoveUnresolvedIs400 ==
  \A user_id \in Users : \A note_id \in Owned(user_id) :
    \A label_ids \in Lists(LabelIds) :
      Range(label_ids) \cap notes[note_id].labels = {} =>
        LET rs == remove_labels_from_note_results(user_id, note_id, label_ids)
        IN /\ \A r \in rs : r.notes = notes
           /\ IF Range(label_ids) \cap LabelsOf(user_id) = {}
                THEN \A r \in rs : r.status = 400
                ELSE \E r \in rs : Success(r.status)

\* a removal has just been answered 400 on an owned note, and there is a label
\* of another user, which the note's owner cannot name
C20_Witness ==
  /\ resp.op = "remove_labels_from_note"
  /\ resp.status = 400
  /\ resp.note_id \in Owned(resp.user_id)
  /\ DOMAIN labels \ LabelsOf(resp.user_id) # {}

\* C21: a successful archive toggle by the owner stores the note with
\* is_archive negated and everything else (is_trash, the other fields, the
\* other notes) as it was, and a second successful toggle right after it
\* gives back the store the first one started from.
C21_ArchiveToggleInvolution ==
  \A user_id \in Users : \A note_id \in Owned(user_id) :
    \A r1 \in toggle_archive_results(user_id, note_id) :
      Success(r1.status) =>
        /\ r1.notes = [notes EXCEPT ![note_id].is_archive = ~notes[note_id].is_archive]
        /\ \A r2 \in toggle_archive_on(r1.notes, r1.cache, r1.jobs, user_id, note_id) :
              Success(r2.status) => r2.notes = notes

\* a trashed note has just been archived by a toggle, and toggling it again
\* can succeed
C21_Witness ==
  /\ resp.op = "toggle_archive"
  /\ Success(resp.status)
  /\ notes[resp.note_id].is_archive
  /\ notes[resp.note_id].is_trash
  /\ \E r \in toggle_archive_results(resp.user_id, resp.note_id) : Success(r.status)

\* the ids of the notes that were deleted: handed out by the store and no
\* longer in the table
Deleted == (1..(nextNoteId - 1)) \ DOMAIN notes

\* the outcomes of every request a user can address to a note id
AddressedTo(user_id, note_id) ==
  UNION {update_note_results(user_id, note_id, updated_note) : updated_note \in CreateNote}
  \cup delete_note_results(user_id, note_id)
  \cup toggle_archive_results(user_id, note_id)
  \cup toggle_trash_results(user_id, note_id)
  \cup UNION {add_labels_to_note_results(user_id, note_id, label_ids) :
                label_ids \in Lists(LabelIds)}
  \cup UNION {remove_labels_from_note_results(user_id, note_id, label_ids) :
                label_ids \in Lists(LabelIds)}
  \cup UNION {add_collaborators_results(user_id, note_id, user_ids, access) :
                user_ids \in Lists(RequestIds), access \in AccessInputs}
  \cup UNION {remove_collaborators_results(user_id, note_id, user_ids) :
                user_ids \in Lists(RequestIds)}

\* C22: every request addressed to the id of a deleted note is answered 404
\* and changes nothing, and no list result holds a note with that id.
C22_DeletedIdIsNotFound ==
  \A n \in Deleted : \A user_id \in Users :
    /\ \A r \in AddressedTo(user_id, n) :
          r.status = 404 /\ r.notes = notes /\ r.cache = cache /\ r.jobs = jobs
    /\ \A r \in get_notes_results(user_id) : \A d \in r.data : d.id # n

\* C23: an archive or trash toggle addressed to a note that does not exist or
\* that the actor does not own is answered 404 and leaves store and cache as
\* they were.
C23_ToggleMissingIs404 ==
  \A user_id \in Users, note_id \in NoteIds :
    ~OwnedNote(notes, note_id, user_id) =>
      \A r \in toggle_archive_results(user_id, note_id)
                 \cup toggle_trash_results(user_id, note_id) :
        r.status = 404 /\ r.notes = notes /\ r.cache = cache

\* the JSON body a client sends for a parsed CreateNote, and the JSON it reads
\* in a response: every datetime in its ISO text
Submitted(note) == [note EXCEPT !.reminder = isoformat(@)]
ResponseJson(d) == [d EXCEPT !.reminder = isoformat(@)]

\* d carries the submitted values, the id and the creator's id
ReadsBack(d, note, id, user_id) ==
  /\ d.id = id
  /\ d.user_id = user_id
  /\ \A f \in DOMAIN Submitted(note) : d[f] = Submitted(note)[f]

\* C24: when POST /notes/ succeeds, the id is one the store never handed out,
\* a GET /notes/ of the creator that is answered holds the note with the
\* submitted values, the id and the creator's id, and so does the creator's
\* cache bucket.
C24_CreateReadsBack ==
  \A user_id \in Users, note \in CreateNote :
    \A r \in create_note_results(user_id, note) :
      Success(r.status) =>
        LET id == CHOOSE n \in DOMAIN r.notes : n \notin DOMAIN notes
        IN /\ id \notin DOMAIN notes \cup Deleted
           /\ \A g \in get_notes_on(r.notes, r.cache, r.jobs, user_id) :
                 Success(g.status) =>
                   \E d \in g.data : ReadsBack(ResponseJson(d), note, id, user_id)
           /\ \E f \in DOMAIN r.cache[BucketKey(user_id)] :
                 ReadsBack(r.cache[BucketKey(user_id)][f], note, id, user_id)

\* C25: every entry of every collaborator map has access "readonly" or
\* "readwrite", and an add-collaborators request with any other access value
\* stores nothing.
C25_AccessValuesValid ==
  /\ \A n \in DOMAIN notes : \A k \in DOMAIN notes[n].collaborators :
        notes[n].collaborators[k].access \in AccessValues
  /\ \A user_id \in Users, note_id \in DOMAIN notes :
        \A user_ids \in Lists(RequestIds), access \in AccessInputs \ AccessValues :
          \A r \in add_collaborators_results(user_id, note_id, user_ids, access) :
            r.notes = notes

\* the requests the middleware let through, and the count the log holds
Processed(method, path) ==
  {w \in Workers : /\ inflight[w].pc = "done"
                   /\ inflight[w].status = 200
                   /\ inflight[w].method = method
                   /\ inflight[w].path = path}

Counter(method, path) ==
  IF method \in DOMAIN request_log /\ path \in DOMAIN request_log[method]
    THEN request_log[method][path]
  ELSE 0

\* C26: once every request that was taken up has been answered, the log's
\* count for each method and path is the number of requests of that method
\* and path the middleware let through.
C26_NoIncrementLost ==
  (\A w \in Workers : inflight[w].pc \in {"idle", "done"}) =>
    \A method \in Methods, path \in Paths :
      Counter(method, path) = Cardinality(Processed(method, path))

\* the workers whose mutating request on note n went through
Completed(n) ==
  {w \in Workers : /\ inflight[w].pc = "done"
                   /\ inflight[w].status = 200
                   /\ inflight[w].note_id = n}

\* C27: when two mutating requests on a note have both gone through and no
\* request is in flight, the owner's bucket holds an entry for the note that
\* equals the note in the store.
C27_CacheHoldsFinalStore ==
  (\A w \in Workers : inflight[w].pc \in {"idle", "done"}) =>
    \A n \in DOMAIN notes :
      Cardinality(Completed(n)) >= 2 =>
        \E f \in DOMAIN cache[BucketKey(notes[n].user_id)] :
          cache[BucketKey(notes[n].user_id)][f] = Snapshot(n)

\* C28: every note starts with is_archive = FALSE (POST /notes/ with the
\* schema default).  When the only requests served are archive toggles and
\* none is in flight, is_archive of a note is TRUE exactly when the number of
\* toggles of that note that were answered 200 is odd.
C28_ToggleParity ==
  (\A w \in Workers : \/ inflight[w].pc = "idle"
                      \/ inflight[w].pc = "done" /\ inflight[w].op = "toggle_archive") =>
    \A n \in DOMAIN notes :
      notes[n].is_archive = (Cardinality(Completed(n)) % 2 = 1)

\* C29: every scheduled reminder job, reminder_task_<id> or
\* reminder_update_task_<id>, names a note that is in the store.
C29_JobsNameExistingNotes ==
  \A job \in jobs : job[2] \in DOMAIN notes

\* C30: no cached note snapshot lists a label that is not in the labels table
\* (labels leave the table only through DELETE /labels/{label_id}).
C30_NoCachedDeletedLabel ==
  \A key \in BucketKeys : \A f \in DOMAIN cache[key] :
    \A l \in cache[key][f].labels : l.id \in DOMAIN labels
====
